---- MODULE Spec2Model ----
(***************************************************************************)
(* A model of wordpress-export-to-markdown (src/index.js): the export is   *)
(* parsed into images and posts, images are merged into posts, and one     *)
(* markdown file per post is written while image downloads are staggered.  *)
(***************************************************************************)
EXTENDS Integers, Sequences, FiniteSets, TLC

VARIABLES
  argv,       \* the parsed command line (global argv)
  file,       \* what the input path holds: unreadable, unparsable or an export
  pc,         \* position of the synchronous script
  images,     \* global images
  authors,    \* global authors
  posts,      \* global posts
  cursor,     \* index of the forEach in progress (merge, writeFiles)
  delay,      \* writeFiles' local delay
  writes,     \* fs.writeFile calls: one entry per call
  downloads,  \* writeImageFile calls: one entry per call
  dirs,       \* directories created by createDir
  content,    \* what readFile returned: <<"unread">> before the call, then
              \* Undefined or <<"text">>, the text of file
  log,        \* what was written to the console
  x,          \* argument handed to a pure function
  y           \* value the pure function returned

vars == <<argv, file, pc, images, authors, posts, cursor, delay, writes,
          downloads, dirs, content, log, x, y>>

----------------------------------------------------------------------------
(* JavaScript values: a tag, then the payload.                             *)

Undefined == <<"undefined">>
Null == <<"null">>
Str(s) == <<"string", s>>
Num(n) == <<"number", n>>
Bool(b) == <<"boolean", b>>
Arr(s) == <<"array", s>>
Obj(s) == <<"object", s>>   \* s: sequence of <<key, value>>, keys in insertion order

\* !!value
Truthy(v) ==
  CASE v[1] = "undefined" -> FALSE
    [] v[1] = "null" -> FALSE
    [] v[1] = "string" -> v[2] # ""
    [] v[1] = "number" -> v[2] # 0
    [] v[1] = "boolean" -> v[2]
    [] OTHER -> TRUE

\* a == b on primitives (the comparison the code does not use)
LooseEq(a, b) ==
  \/ a = b
  \/ /\ {a[1], b[1]} = {"string", "number"}
     /\ LET s == IF a[1] = "string" THEN a[2] ELSE b[2]
            n == IF a[1] = "number" THEN a[2] ELSE b[2]
        IN s = ToString(n)

\* a === b on primitives
StrictEq(a, b) == a = b

\* object[key], Undefined when the key is absent
ObjGet(obj, key) ==
  LET hits == SelectSeq(obj[2], LAMBDA kv : kv[1] = key)
  IN IF hits = <<>> THEN Undefined ELSE hits[1][2]

ObjKeys(obj) == {obj[2][i][1] : i \in 1..Len(obj[2])}

\* object[key] = value: an existing key keeps its place, a new one goes last
ObjSet(obj, key, value) ==
  IF key \in ObjKeys(obj)
    THEN Obj([i \in 1..Len(obj[2]) |->
                IF obj[2][i][1] = key THEN <<key, value>> ELSE obj[2][i]])
    ELSE Obj(Append(obj[2], <<key, value>>))

\* Array.isArray(value)
isArray(value) == value[1] = "array"

isObject(value) == Truthy(value) /\ value[1] = "object"

isEmpty(value) ==
  CASE isArray(value) -> SelectSeq(value[2], Truthy) = <<>>
    [] isObject(value) -> Len(value[2]) = 0
    [] OTHER -> value = Null \/ value = Undefined \/ value = Str("")

RECURSIVE clean(_)
\* the reducer of clean() without its second isEmpty test
cleanKeepsCleaned(value) ==
  IF ~isEmpty(value) THEN <<clean(value)>> ELSE <<>>

\* the reducer's body: <<v>> when key is kept with value v, <<>> when dropped
cleanValue(value) ==
  IF ~isEmpty(value)
    THEN LET c == clean(value) IN IF ~isEmpty(c) THEN <<c>> ELSE <<>>
    ELSE <<>>

RECURSIVE cleanKeys(_)
cleanKeys(kvs) ==
  IF kvs = <<>> THEN <<>>
  ELSE LET kv == Head(kvs)
           c == cleanValue(kv[2])
       IN (IF c = <<>> THEN <<>> ELSE << <<kv[1], c[1]>> >>) \o cleanKeys(Tail(kvs))

RECURSIVE cleanItems(_)
cleanItems(vs) ==
  IF vs = <<>> THEN <<>>
  ELSE LET c == clean(Head(vs))
       IN (IF isEmpty(c) THEN <<>> ELSE <<c>>) \o cleanItems(Tail(vs))

clean(input) ==
  CASE isArray(input) -> Arr(cleanItems(input[2]))
    [] isObject(input) -> Obj(cleanKeys(input[2]))
    [] OTHER -> input

----------------------------------------------------------------------------
(* URLs and paths are kept split on "/": a sequence of segments.           *)

getFilenameFromUrl(url) == url[Len(url)]

\* the extension the regexes /\.(gif|jpg|jpeg|png)$/i look at
ExtensionOf ==
  ("a.png" :> "png") @@ ("b.jpg" :> "jpg") @@ ("doc.pdf" :> "pdf")

isImageUrl(url) ==
  ExtensionOf[getFilenameFromUrl(url)] \in {"gif", "jpg", "jpeg", "png"}

RECURSIVE normalize(_)
\* path.normalize on segments: "" and "." vanish, ".." takes one segment back
normalize(segs) ==
  IF segs = <<>> THEN <<>>
  ELSE LET front == normalize(SubSeq(segs, 1, Len(segs) - 1))
           last == segs[Len(segs)]
       IN CASE last \in {"", "."} -> front
            [] last = ".." /\ front # <<>> /\ front[Len(front)] # ".." ->
                 SubSeq(front, 1, Len(front) - 1)
            [] OTHER -> Append(front, last)

\* path.join(a, b)
join(a, b) == normalize(a \o b)

----------------------------------------------------------------------------
(* Dates. A pubDate is <<"rfc2822", y, m, d>> (its UTC calendar day) or      *)
(* <<"invalid">>, as WordPress writes for a post that was never published. *)

pad(n, width) ==
  LET s == ToString(n)
  IN IF Len(s) >= width THEN s
     ELSE IF width - Len(s) = 1 THEN "0" \o s
     ELSE IF width - Len(s) = 2 THEN "00" \o s
     ELSE "000" \o s

\* DateTime.toISODate(): null for an invalid DateTime
toISODate(dt) ==
  IF dt[1] = "invalid" THEN Null
  ELSE Str(pad(dt[2], 4) \o "-" \o pad(dt[3], 2) \o "-" \o pad(dt[4], 2))

Years == {2020, 2021}
Months == {6, 12}
Days == {5, 15}
DateTimes == {<<"rfc2822", yy, mm, dd>> : yy \in Years, mm \in Months, dd \in Days}

\* DateTime.fromISO(text): the DateTime whose ISO date is text, else invalid
fromISO(text) ==
  IF \E dt \in DateTimes : toISODate(dt) = text
    THEN CHOOSE dt \in DateTimes : toISODate(dt) = text
    ELSE <<"invalid">>

\* DateTime.toFormat(fmt) for the three formats the code uses
toFormat(dt, fmt) ==
  IF dt[1] = "invalid" THEN "Invalid DateTime"
  ELSE CASE fmt = "yyyy" -> pad(dt[2], 4)
         [] fmt = "LL" -> pad(dt[3], 2)
         [] fmt = "yyyy-LL-dd" ->
              pad(dt[2], 4) \o "-" \o pad(dt[3], 2) \o "-" \o pad(dt[4], 2)

----------------------------------------------------------------------------
(* Post getters, on one <item> of the parsed export.                       *)

getPostId(post) == post.post_id

\* post.post_name[0] || post.post_id[0]
getPostSlug(post) == IF post.post_name # "" THEN post.post_name ELSE post.post_id

\* the link without scheme and host, and without one leading or trailing "/"
getPostPath(post) ==
  LET rest == SubSeq(post.link, 4, Len(post.link))
  IN IF rest # <<>> /\ rest[Len(rest)] = ""
       THEN SubSeq(rest, 1, Len(rest) - 1)
       ELSE rest

getPostDate(post) == toISODate(post.pubDate)

getPostStatus(post) == post.status

getPostTitle(post) == post.title

getPostExcerpt(post) == post.excerpt

getPostThumbnailImage(post) == post.thumbnail_id

getPostFeatureImage(post) == post.post_medium_thumbnail_id

getCategories(post) == Arr([i \in 1..Len(post.categories) |-> Str(post.categories[i])])

getTags(post) == Arr([i \in 1..Len(post.tags) |-> Str(post.tags[i])])

\* metaKeys is empty: no postmeta key is kept
getMeta(post) == Obj(<<>>)

hasAuthor(authorList, id) == \E i \in 1..Len(authorList) : authorList[i].id = id

getAuthorName(authorList, id) ==
  authorList[CHOOSE i \in 1..Len(authorList) :
               /\ authorList[i].id = id
               /\ \A j \in 1..(i - 1) : authorList[j].id # id].name

\* the object collectPosts builds for one item
makePost(post, authorList) ==
  [ meta |->
      [ id |-> getPostId(post),
        slug |-> getPostSlug(post),
        path |-> getPostPath(post),
        status |-> getPostStatus(post),
        thumbnailImageId |-> getPostThumbnailImage(post),
        featureImageId |-> getPostFeatureImage(post),
        imageUrls |-> <<>> ],   \* <<>> is undefined: the code never keeps []
    frontmatter |->
      Obj(<< <<"slug", Str(getPostSlug(post))>>,
             <<"title", Str(getPostTitle(post))>>,
             <<"summary", Str(getPostExcerpt(post))>>,
             <<"author", Str(getAuthorName(authorList, post.creator))>>,
             <<"date", getPostDate(post)>>,
             <<"images", Obj(<<>>)>>,
             <<"categories", getCategories(post)>>,
             <<"tags", getTags(post)>>,
             <<"meta", getMeta(post)>> >>) ]

----------------------------------------------------------------------------
(* Image collection and linking.                                           *)

ScrapedId == Num(-1)

RECURSIVE scrapePost(_, _, _)
\* the while loop of addContentImages over one post's <img> matches
scrapePost(postId, urls, imgs) ==
  IF urls = <<>> THEN imgs
  ELSE LET url == Head(urls)
           exists == \E k \in 1..Len(imgs) :
                       StrictEq(imgs[k].postId, postId) /\ imgs[k].url = url
       IN scrapePost(postId, Tail(urls),
            IF ~exists
              THEN Append(imgs, [id |-> ScrapedId, postId |-> postId, url |-> url])
              ELSE imgs)

RECURSIVE addContentImages(_, _)
\* items: the export's post items still to scan; imgs: the images so far
addContentImages(items, imgs) ==
  IF items = <<>> THEN imgs
  ELSE addContentImages(Tail(items),
         scrapePost(Str(Head(items).post_id), Head(items).imgs, imgs))

collectImages(data) ==
  LET kept == SelectSeq(data.attachments, LAMBDA a : isImageUrl(a.attachment_url))
      declared == [k \in 1..Len(kept) |->
                     [ id |-> Str(kept[k].post_id),
                       postId |-> Str(kept[k].post_parent),
                       url |-> kept[k].attachment_url ]]
  IN IF argv.addcontentimages
       THEN addContentImages(data.posts, declared)
       ELSE declared

collectAuthors(data) == data.authors

\* posts.filter(o => o.meta.thumbnailImageId === image.id)[0], as an index; 0: none
thumbnailPost(image, ps) ==
  LET hits == {i \in 1..Len(ps) : StrictEq(ps[i].meta.thumbnailImageId, image.id)}
  IN IF hits = {} THEN 0 ELSE CHOOSE i \in hits : \A j \in hits : i <= j

\* postsLookup[image.postId], as an index; 0: none. A later post with the same
\* id overwrites an earlier one in the lookup table.
postsLookup(postId, ps) ==
  LET hits == {i \in 1..Len(ps) : Str(ps[i].meta.id) = postId}
  IN IF hits = {} THEN 0 ELSE CHOOSE i \in hits : \A j \in hits : i >= j

\* the parent post first, the thumbnail only as a fallback
ownerParentFirst(image, ps) ==
  IF postsLookup(image.postId, ps) # 0
    THEN postsLookup(image.postId, ps)
    ELSE thumbnailPost(image, ps)

\* the post the forEach body of mergeImagesIntoPosts picks for image; 0: none
ownerOf(image, ps) ==
  IF thumbnailPost(image, ps) # 0
    THEN thumbnailPost(image, ps)
    ELSE postsLookup(image.postId, ps)

imagePath(image) == Str("./images/" \o getFilenameFromUrl(image.url))

isCoverLoosely(imageId, coverId) == LooseEq(imageId, coverId)

\* image.id === post.meta.thumbnailImageId, image.id === post.meta.featureImageId
isCoverOf(imageId, coverId) == StrictEq(imageId, coverId)

\* frontmatter.images after the two ifs of the forEach body
linkCover(post, image) ==
  LET imgs0 == ObjGet(post.frontmatter, "images")
      imgs1 == IF isCoverOf(image.id, post.meta.thumbnailImageId)
                 THEN ObjSet(imgs0, "thumbnail", imagePath(image)) ELSE imgs0
      imgs2 == IF isCoverOf(image.id, post.meta.featureImageId)
                 THEN ObjSet(imgs1, "feature", imagePath(image)) ELSE imgs1
  IN ObjSet(post.frontmatter, "images", imgs2)

\* the forEach body of mergeImagesIntoPosts for one image
mergeImage(image, ps) ==
  LET o == ownerOf(image, ps)
  IN IF o = 0 THEN ps
     ELSE [ps EXCEPT ![o] =
             [ meta |-> [ps[o].meta EXCEPT !.imageUrls = Append(@, image.url)],
               frontmatter |-> linkCover(ps[o], image) ]]

----------------------------------------------------------------------------
(* Output paths.                                                           *)

ValidFolders == {"year", "yearmonth", "path", "post"}

\* a test for the path mode alone
testPathOnly(folders) == folders = "path"

\* /path|post/.test(folders): true of any string that holds either word
testPathOrPost(folders) == folders \in {"path", "post", "posts"}

\* getPostDir with the draft test of the path mode left out
getPostDirNoDrafts(post) ==
  LET dir == argv.output
      dt == fromISO(ObjGet(post.frontmatter, "date"))
  IN CASE argv.folders = "year" -> join(dir, <<toFormat(dt, "yyyy")>>)
       [] argv.folders = "yearmonth" ->
            join(dir, <<toFormat(dt, "yyyy"), toFormat(dt, "LL")>>)
       [] argv.folders = "path" -> join(dir, post.meta.path)
       [] argv.folders = "post" ->
            LET folder == IF argv.prefixdate
                            THEN toFormat(dt, "yyyy-LL-dd") \o "-" \o post.meta.slug
                            ELSE post.meta.slug
            IN join(dir, <<folder>>)
       [] OTHER -> dir

getPostDir(post) ==
  LET dir == argv.output
      dt == fromISO(ObjGet(post.frontmatter, "date"))
  IN CASE argv.folders = "year" -> join(dir, <<toFormat(dt, "yyyy")>>)
       [] argv.folders = "yearmonth" ->
            join(dir, <<toFormat(dt, "yyyy"), toFormat(dt, "LL")>>)
       [] argv.folders = "path" ->
            IF post.meta.status = "draft"
              THEN join(dir, <<"drafts", post.meta.slug>>)
              ELSE join(dir, post.meta.path)
       [] argv.folders = "post" ->
            LET folder == IF argv.prefixdate
                            THEN toFormat(dt, "yyyy-LL-dd") \o "-" \o post.meta.slug
                            ELSE post.meta.slug
            IN join(dir, <<folder>>)
       [] OTHER -> dir

getPostFilename(post) ==
  LET filename == post.meta.slug \o ".md"
  IN IF testPathOrPost(argv.folders)
       THEN (IF argv.namedfiles THEN filename ELSE "index.md")
       ELSE IF argv.prefixdate
         THEN toFormat(fromISO(ObjGet(post.frontmatter, "date")), "yyyy-LL-dd")
                \o "-" \o filename
         ELSE filename

----------------------------------------------------------------------------
(* Writing.                                                                *)

Stagger == 25

skipStagger(d) == d

\* delay += 25
nextDelay(d) == d + Stagger

writeRaw(post) == post.frontmatter

\* the frontmatter writeMarkdownFile hands to YAML.stringify
serialized(post) == clean(post.frontmatter)

\* the fs.writeFile call of writeMarkdownFile
markdownWrite(i, post, postDir) ==
  [ post |-> i,
    path |-> join(postDir, <<getPostFilename(post)>>),
    frontmatter |-> serialized(post),
    status |-> "pending" ]

RECURSIVE scheduleImages(_, _, _, _)
\* the imageUrls.forEach of writeFiles: one writeImageFile call per URL
scheduleImages(i, urls, imageDir, d) ==
  IF urls = <<>> THEN <<>>
  ELSE << [ post |-> i,
            url |-> Head(urls),
            path |-> join(imageDir, <<getFilenameFromUrl(Head(urls))>>),
            delay |-> d,
            status |-> "scheduled" ] >>
       \o scheduleImages(i, Tail(urls), imageDir, nextDelay(d))

RECURSIVE delayAfter(_, _)
delayAfter(urls, d) == IF urls = <<>> THEN d ELSE delayAfter(Tail(urls), nextDelay(d))

----------------------------------------------------------------------------
(* The inputs: command lines and exports.                                  *)

MaxPosts == 2
MaxAttachments == 1

U1 == <<"http:", "", "example.com", "uploads", "a.png">>
U2 == <<"http:", "", "example.com", "uploads", "b.jpg">>
PdfUrl == <<"http:", "", "example.com", "uploads", "doc.pdf">>

\* The i-th post item of an export. Ids are unique, as WordPress assigns them.
\* The second post is a draft: no post_name, no publication date.
postItem(i, thumb, feature, imgs) ==
  [ post_id |-> ToString(i),
    post_name |-> IF i = 2 THEN "" ELSE "post-" \o ToString(i),
    title |-> "Post " \o ToString(i),
    status |-> IF i = 2 THEN "draft" ELSE "publish",
    link |-> IF i = 2 THEN <<"http:", "", "example.com", "?p=2">>
             ELSE <<"http:", "", "example.com", "2021", "post-" \o ToString(i), "">>,
    pubDate |-> IF i = 2 THEN <<"invalid">> ELSE <<"rfc2822", 2021, 6, 15>>,
    creator |-> "admin",
    excerpt |-> IF i = 1 THEN "" ELSE "summary",
    categories |-> IF i = 1 THEN <<"news", "">> ELSE <<>>,
    tags |-> <<>>,
    thumbnail_id |-> thumb,
    post_medium_thumbnail_id |-> feature,
    imgs |-> imgs ]   \* the <img> URLs of encoded[0], resolved against link

\* The k-th attachment item: ids 10, 11, ...
attachmentItem(k, parent, url) ==
  [ post_id |-> ToString(9 + k), post_parent |-> parent, attachment_url |-> url ]

postLists(choices) ==
  UNION { { [i \in 1..n |-> postItem(i, c[i][1], c[i][2], c[i][3])] :
              c \in [1..n -> choices] } : n \in 0..MaxPosts }

attachmentLists(parents, urls) ==
  UNION { { [k \in 1..n |-> attachmentItem(k, c[k][1], c[k][2])] :
              c \in [1..n -> parents \X urls] } : n \in 0..MaxAttachments }

KnownAuthors == << [id |-> "admin", name |-> "Admin"] >>
OtherAuthors == << [id |-> "editor", name |-> "Editor"] >>

\* the exports of a whole run
Exports ==
  { [posts |-> ps, attachments |-> as, authors |-> au] :
      ps \in postLists({Undefined, Str("10")} \X {Undefined} \X {<<>>, <<U1, U1>>}),
      as \in { <<>>, <<attachmentItem(1, "1", U2)>>, <<attachmentItem(1, "1", PdfUrl)>> },
      au \in {KnownAuthors, OtherAuthors} }

\* thumbnail and feature ids of a post: none, a thumbnail, one image as both,
\* or ids that read like the -1 of a scraped image
CoverChoices ==
  { <<Undefined, Undefined>>, <<Str("10"), Undefined>>, <<Str("10"), Str("10")>>,
    <<Str("-1"), Str("-1")>> }

\* the exports the linking is checked on
LinkExports ==
  { [posts |-> ps, attachments |-> as, authors |-> KnownAuthors] :
      ps \in postLists({ <<c[1], c[2], i>> : c \in CoverChoices, i \in {<<>>, <<U1, U1>>} }),
      as \in attachmentLists({ToString(i) : i \in 0..MaxPosts}, {U1, U2}) }

DefaultArgv ==
  [ output |-> <<"output">>, folders |-> "path", prefixdate |-> FALSE,
    namedfiles |-> FALSE, saveimages |-> TRUE, addcontentimages |-> TRUE ]

----------------------------------------------------------------------------
(* The run: init() and everything it calls, then the callbacks.            *)

Init ==
  /\ argv \in { [DefaultArgv EXCEPT !.folders = f, !.saveimages = s,
                                     !.addcontentimages = a] :
                  f \in {"path", "year", "flat"}, s \in BOOLEAN, a \in BOOLEAN }
  /\ file \in { <<"unreadable">>, <<"unparsable">> } \cup { <<"export", e>> : e \in Exports }
  /\ pc = "init"
  /\ images = <<>>
  /\ authors = <<>>
  /\ posts = <<>>
  /\ cursor = 0
  /\ delay = 0
  /\ writes = <<>>
  /\ downloads = <<>>
  /\ dirs = {}
  /\ content = <<"unread">>
  /\ log = {}
  /\ x = <<"none">>
  /\ y = <<"none">>

\* init() up to its check of the folders option
afterCheckAlways(valid) == "readFile"

afterCheck(valid) == IF valid THEN "readFile" ELSE "exit"

CheckFolders ==
  /\ pc = "init"
  /\ pc' = afterCheck(argv.folders \in ValidFolders)
  /\ log' = IF argv.folders \in ValidFolders THEN log
            ELSE log \cup {<<"Invalid folders option:", argv.folders>>}
  /\ UNCHANGED <<argv, file, images, authors, posts, cursor, delay, writes,
                 downloads, dirs, content, x, y>>

ReadFile ==
  /\ pc = "readFile"
  /\ content' = IF file[1] = "unreadable" THEN Undefined ELSE <<"text">>
  /\ log' = IF file[1] = "unreadable" THEN log \cup {<<"Unable to read file.">>} ELSE log
  /\ pc' = "parseFileContent"
  /\ UNCHANGED <<argv, file, images, authors, posts, cursor, delay, writes,
                 downloads, dirs, x, y>>

ParseFileContent ==
  /\ pc = "parseFileContent"
  /\ IF content = <<"text">> /\ file[1] = "export"
       THEN pc' = "collectImages" /\ log' = log
       ELSE pc' = "exit" /\ log' = log \cup {<<"Unable to parse file content.">>}
  /\ UNCHANGED <<argv, file, images, authors, posts, cursor, delay, writes,
                 downloads, dirs, content, x, y>>

CollectImages ==
  /\ pc = "collectImages"
  /\ images' = collectImages(file[2])
  /\ pc' = "collectAuthors"
  /\ UNCHANGED <<argv, file, authors, posts, cursor, delay, writes, downloads,
                 dirs, content, log, x, y>>

CollectAuthors ==
  /\ pc = "collectAuthors"
  /\ authors' = collectAuthors(file[2])
  /\ pc' = "collectPosts"
  /\ UNCHANGED <<argv, file, images, posts, cursor, delay, writes, downloads,
                 dirs, content, log, x, y>>

\* getAuthorName throws on a creator that is no author: the run ends there
CollectPosts ==
  /\ pc = "collectPosts"
  /\ LET items == file[2].posts
     IN IF \A i \in 1..Len(items) : hasAuthor(authors, items[i].creator)
          THEN /\ posts' = [i \in 1..Len(items) |-> makePost(items[i], authors)]
               /\ pc' = "mergeImagesIntoPosts"
               /\ cursor' = 1
          ELSE /\ posts' = posts
               /\ pc' = "crashed"
               /\ cursor' = cursor
  /\ UNCHANGED <<argv, file, images, authors, delay, writes, downloads, dirs,
                 content, log, x, y>>

\* one turn of images.forEach in mergeImagesIntoPosts
MergeImage ==
  /\ pc = "mergeImagesIntoPosts"
  /\ cursor <= Len(images)
  /\ posts' = mergeImage(images[cursor], posts)
  /\ cursor' = cursor + 1
  /\ UNCHANGED <<argv, file, pc, images, authors, delay, writes, downloads,
                 dirs, content, log, x, y>>

\* mergeImagesIntoPosts returns; writeFiles starts with delay = 0
MergeReturn ==
  /\ pc = "mergeImagesIntoPosts"
  /\ cursor > Len(images)
  /\ pc' = "writeFiles"
  /\ cursor' = 1
  /\ delay' = 0
  /\ UNCHANGED <<argv, file, images, authors, posts, writes, downloads, dirs,
                 content, log, x, y>>

\* one turn of posts.forEach in writeFiles
WritePost ==
  /\ pc = "writeFiles"
  /\ cursor <= Len(posts)
  /\ LET post == posts[cursor]
         postDir == getPostDir(post)
         imageDir == join(postDir, <<"images">>)
         saving == argv.saveimages /\ post.meta.imageUrls # <<>>
     IN /\ writes' = Append(writes, markdownWrite(cursor, post, postDir))
        /\ downloads' = IF saving
             THEN downloads \o scheduleImages(cursor, post.meta.imageUrls, imageDir, delay)
             ELSE downloads
        /\ delay' = IF saving THEN delayAfter(post.meta.imageUrls, delay) ELSE delay
        /\ dirs' = IF saving THEN dirs \cup {postDir, imageDir} ELSE dirs \cup {postDir}
  /\ cursor' = cursor + 1
  /\ UNCHANGED <<argv, file, pc, images, authors, posts, content, log, x, y>>

\* writeFiles, processData and init return: only callbacks run from here on
WriteFilesReturn ==
  /\ pc = "writeFiles"
  /\ cursor > Len(posts)
  /\ pc' = "idle"
  /\ UNCHANGED <<argv, file, images, authors, posts, cursor, delay, writes,
                 downloads, dirs, content, log, x, y>>

\* a callback that throws instead of logging: nothing pending survives it
abandonAll(items, i, outcome) ==
  [j \in 1..Len(items) |->
     IF j = i THEN [items[j] EXCEPT !.status = outcome]
     ELSE IF items[j].status \in {"pending", "scheduled", "requested"}
       THEN [items[j] EXCEPT !.status = "abandoned"]
       ELSE items[j]]

\* what a callback does to the list its item is in: it logs, nothing more
settle(items, i, outcome) == [items EXCEPT ![i].status = outcome]

\* the callback of fs.writeFile for the w-th write
WriteFileCallback(w, err) ==
  /\ pc = "idle"
  /\ writes[w].status = "pending"
  /\ writes' = settle(writes, w, IF err THEN "failed" ELSE "wrote")
  /\ log' = log \cup {<<IF err THEN "Unable to write file." ELSE "Wrote: ", writes[w].path>>}
  /\ UNCHANGED <<argv, file, pc, images, authors, posts, cursor, delay,
                 downloads, dirs, content, x, y>>

\* the setTimeout callback of the k-th writeImageFile call: timers of one
\* synchronous run fire in the order of their delays
StartRequest(k) ==
  /\ pc = "idle"
  /\ downloads[k].status = "scheduled"
  /\ \A j \in 1..Len(downloads) :
        downloads[j].delay < downloads[k].delay => downloads[j].status # "scheduled"
  /\ downloads' = settle(downloads, k, "requested")
  /\ UNCHANGED <<argv, file, pc, images, authors, posts, cursor, delay, writes,
                 dirs, content, log, x, y>>

\* the request ends: a 200 response piped to the file, another status code
\* (logged, the body still piped), or an error (logged)
EndRequest(k, outcome) ==
  /\ pc = "idle"
  /\ downloads[k].status = "requested"
  /\ downloads' = settle(downloads, k, outcome)
  /\ log' = log \cup
       CASE outcome = "saved" -> {<<"Saved: ", downloads[k].path>>}
         [] outcome = "badStatus" ->
              {<<"Response status code", downloads[k].url>>, <<"Saved: ", downloads[k].path>>}
         [] outcome = "error" -> {<<"Unable to download image.", downloads[k].url>>}
  /\ UNCHANGED <<argv, file, pc, images, authors, posts, cursor, delay, writes,
                 dirs, content, x, y>>

Next ==
  \/ CheckFolders
  \/ ReadFile
  \/ ParseFileContent
  \/ CollectImages
  \/ CollectAuthors
  \/ CollectPosts
  \/ MergeImage
  \/ MergeReturn
  \/ WritePost
  \/ WriteFilesReturn
  \/ \E w \in 1..Len(writes), err \in BOOLEAN : WriteFileCallback(w, err)
  \/ \E k \in 1..Len(downloads) : StartRequest(k)
  \/ \E k \in 1..Len(downloads), outcome \in {"saved", "badStatus", "error"} :
       EndRequest(k, outcome)

Spec == Init /\ [][Next]_vars

----------------------------------------------------------------------------
(* The linking alone: processData from collectImages to the end of         *)
(* mergeImagesIntoPosts, on a wider set of exports.                        *)

InitLink ==
  /\ argv \in { [DefaultArgv EXCEPT !.addcontentimages = a] : a \in BOOLEAN }
  /\ file \in { <<"export", e>> : e \in LinkExports }
  /\ content = <<"text">>
  /\ pc = "collectImages"
  /\ images = <<>>
  /\ authors = <<>>
  /\ posts = <<>>
  /\ cursor = 0
  /\ delay = 0
  /\ writes = <<>>
  /\ downloads = <<>>
  /\ dirs = {}
  /\ log = {}
  /\ x = <<"none">>
  /\ y = <<"none">>

NextLink ==
  \/ CollectImages
  \/ CollectAuthors
  \/ CollectPosts
  \/ MergeImage
  \/ MergeReturn

SpecLink == InitLink /\ [][NextLink]_vars

\* the images the forEach of mergeImagesIntoPosts has dealt with
merged == IF pc = "mergeImagesIntoPosts" THEN SubSeq(images, 1, cursor - 1)
          ELSE IF pc \in {"writeFiles", "idle"} THEN images ELSE <<>>

\* the owner the specification gives an image: the first post whose
\* thumbnailImageId is the image id, else the post whose id is the image's
\* postId, else none (0)
specOwner(image) ==
  LET byThumb == {p \in 1..Len(posts) : posts[p].meta.thumbnailImageId = image.id}
      byParent == {p \in 1..Len(posts) : Str(posts[p].meta.id) = image.postId}
  IN IF byThumb # {} THEN CHOOSE p \in byThumb : \A q \in byThumb : p <= q
     ELSE IF byParent # {} THEN CHOOSE p \in byParent : TRUE
     ELSE 0

urlsOwnedBy(p) ==
  LET mine == SelectSeq(merged, LAMBDA image : specOwner(image) = p)
  IN [k \in 1..Len(mine) |-> mine[k].url]

\* C1: every image has at most one owner, the first post whose thumbnailImageId
\* is the image id, else the post whose id is the image's postId, else none; each
\* post's imageUrls is exactly the URLs of the images it owns, in image order.
C1_ImageOwner ==
  \A p \in 1..Len(posts) : posts[p].meta.imageUrls = urlsOwnedBy(p)

\* C1 witness: the merge is over, an image went to a thumbnail post that is not
\* its parent post although the parent exists and another post names the same
\* thumbnail, an image was dropped or a post got two URLs in image order.
C1_Witness ==
  /\ pc = "writeFiles"
  /\ \E k \in 1..Len(images) :
       /\ specOwner(images[k]) = 1
       /\ images[k].postId = Str("2")
       /\ Len(posts) = 2
       /\ posts[2].meta.thumbnailImageId = images[k].id
       /\ posts[1].meta.imageUrls = <<U2, U1>>
       /\ posts[2].meta.imageUrls = <<U1>>

frontImages(p) == ObjGet(posts[p].frontmatter, "images")

\* C2: a turn of the merge loop that deals with a scraped image (id -1) leaves
\* frontmatter.images of every post as it was.
C2_ScrapedNeverCover ==
  [][ (pc = "mergeImagesIntoPosts" /\ cursor <= Len(images)
        /\ images[cursor].id = ScrapedId)
      => \A p \in 1..Len(posts) :
           ObjGet(posts'[p].frontmatter, "images") = ObjGet(posts[p].frontmatter, "images") ]_vars

\* C2 witness: a scraped image with the URL of the declared thumbnail attachment
\* was merged into the post that names that thumbnail, after the attachment, and
\* another post names "-1" as its thumbnail and has a scraped image merged.
C2_Witness ==
  /\ pc = "writeFiles"
  /\ Len(posts) = 2
  /\ \E k, a \in 1..Len(images) :
       /\ a < k
       /\ images[k].id = ScrapedId /\ images[a].id = posts[1].meta.thumbnailImageId
       /\ images[k].url = images[a].url
       /\ specOwner(images[k]) = 1 /\ specOwner(images[a]) = 1
  /\ frontImages(1) = Obj(<< <<"thumbnail", Str("./images/a.png")>> >>)
  /\ posts[2].meta.thumbnailImageId = Str("-1")
  /\ posts[2].meta.featureImageId = Str("-1")
  /\ posts[2].meta.imageUrls = <<U1>>
  /\ frontImages(2) = Obj(<<>>)

hasDuplicate(s) == \E i, j \in 1..Len(s) : i < j /\ s[i] = s[j]

\* C10: after collectImages with content scraping and mergeImagesIntoPosts, no
\* post's imageUrls holds the same URL twice.
C10_NoDuplicateUrls ==
  (pc = "writeFiles" /\ argv.addcontentimages)
    => \A p \in 1..Len(posts) : ~hasDuplicate(posts[p].meta.imageUrls)

----------------------------------------------------------------------------
(* clean() alone, on nested values grown one level at a time.              *)

MaxDepth == 2

Primitives ==
  { Undefined, Null, Str(""), Str("s"), Num(0), Num(1), Bool(FALSE), Bool(TRUE) }

Seeds == Primitives \cup { Arr(<<>>), Obj(<<>>) }

Siblings == { Undefined, Str(""), Str("s"), Num(0), Arr(<<>>), Obj(<<>>) }

RECURSIVE depth(_)
depth(v) ==
  IF v[1] = "array"
    THEN 1 + (IF v[2] = <<>> THEN 0
              ELSE LET ds == {depth(v[2][i]) : i \in 1..Len(v[2])}
                   IN CHOOSE d \in ds : \A e \in ds : d >= e)
  ELSE IF v[1] = "object"
    THEN 1 + (IF v[2] = <<>> THEN 0
              ELSE LET ds == {depth(v[2][i][2]) : i \in 1..Len(v[2])}
                   IN CHOOSE d \in ds : \A e \in ds : d >= e)
  ELSE 0

\* v inside an array or an object, alone or beside a sibling
wraps(v) ==
  { Arr(<<v>>), Obj(<< <<"a", v>> >>) }
    \cup { Arr(<<s, v>>) : s \in Siblings }
    \cup { Arr(<<v, s>>) : s \in Siblings }
    \cup { Obj(<< <<"a", s>>, <<"b", v>> >>) : s \in Siblings }
    \cup { Obj(<< <<"a", v>>, <<"b", s>> >>) : s \in Siblings }

InitClean ==
  /\ argv = DefaultArgv
  /\ file = <<"none">>
  /\ content = <<"unread">>
  /\ pc = "clean"
  /\ images = <<>>
  /\ authors = <<>>
  /\ posts = <<>>
  /\ cursor = 0
  /\ delay = 0
  /\ writes = <<>>
  /\ downloads = <<>>
  /\ dirs = {}
  /\ log = {}
  /\ x \in Seeds
  /\ y = <<"none">>

Grow ==
  /\ pc = "clean"
  /\ y = <<"none">>
  /\ depth(x) < MaxDepth
  /\ x' \in wraps(x)
  /\ UNCHANGED <<argv, file, pc, images, authors, posts, cursor, delay, writes,
                 downloads, dirs, content, log, y>>

CallClean ==
  /\ pc = "clean"
  /\ y = <<"none">>
  /\ y' = <<"cleaned", clean(x)>>
  /\ UNCHANGED <<argv, file, pc, images, authors, posts, cursor, delay, writes,
                 downloads, dirs, content, log, x>>

NextClean == Grow \/ CallClean

SpecClean == InitClean /\ [][NextClean]_vars

\* C3: cleaning what clean returned changes nothing: clean(clean(x)) = clean(x).
C3_CleanIdempotent ==
  y[1] = "cleaned" => (y[2] = clean(x) /\ clean(y[2]) = y[2])

\* C3 witness: clean was called on a value two levels deep, pruned something
\* nested and kept something nested.
C3_Witness ==
  /\ y[1] = "cleaned"
  /\ depth(x) = 2
  /\ y[2] # x
  /\ depth(y[2]) = 2

----------------------------------------------------------------------------
(* getPostDir and getPostFilename alone, on one post and any options.      *)

PathModes == ValidFolders \cup {"posts", "flat"}

PathItems ==
  { [ postItem(7, Undefined, Undefined, <<>>) EXCEPT
        !.post_name = n, !.status = st, !.link = l, !.pubDate = d ] :
      n \in {"", "hello"},
      st \in {"publish", "draft"},
      l \in { <<"http:", "", "example.com", "2021", "hello", "">>,
              <<"http:", "", "example.com", "?p=7">>,
              <<"http:", "", "example.com", "">> },
      d \in DateTimes \cup {<<"invalid">>} }

InitPath ==
  /\ argv \in { [DefaultArgv EXCEPT !.folders = f, !.prefixdate = pd, !.namedfiles = nf] :
                  f \in PathModes, pd \in BOOLEAN, nf \in BOOLEAN }
  /\ file = <<"none">>
  /\ content = <<"unread">>
  /\ pc = "path"
  /\ images = <<>>
  /\ authors = KnownAuthors
  /\ posts = <<>>
  /\ cursor = 0
  /\ delay = 0
  /\ writes = <<>>
  /\ downloads = <<>>
  /\ dirs = {}
  /\ log = {}
  /\ x \in PathItems
  /\ y = <<"none">>

\* collectPosts on the one item
BuildPost ==
  /\ pc = "path"
  /\ posts = <<>>
  /\ posts' = <<makePost(x, authors)>>
  /\ UNCHANGED <<argv, file, pc, images, authors, cursor, delay, writes,
                 downloads, dirs, content, log, x, y>>

CallGetPostDir ==
  /\ pc = "path"
  /\ posts # <<>>
  /\ y' = <<"dir", getPostDir(posts[1])>>
  /\ UNCHANGED <<argv, file, pc, images, authors, posts, cursor, delay, writes,
                 downloads, dirs, content, log, x>>

CallGetPostFilename ==
  /\ pc = "path"
  /\ posts # <<>>
  /\ y' = <<"filename", getPostFilename(posts[1])>>
  /\ UNCHANGED <<argv, file, pc, images, authors, posts, cursor, delay, writes,
                 downloads, dirs, content, log, x>>

NextPath == BuildPost \/ CallGetPostDir \/ CallGetPostFilename

SpecPath == InitPath /\ [][NextPath]_vars

\* what the specification calls the slug: the post name or, when blank, the id
specSlug == IF x.post_name = "" THEN x.post_id ELSE x.post_name

dated == x.pubDate[1] # "invalid"

twoDigits(n) == IF n < 10 THEN "0" \o ToString(n) ELSE ToString(n)

specYear == ToString(x.pubDate[2])

specDay == specYear \o "-" \o twoDigits(x.pubDate[3]) \o "-" \o twoDigits(x.pubDate[4])

\* the path of the post's link below the host, without the enclosing slashes
specPath == SelectSeq(SubSeq(x.link, 4, Len(x.link)), LAMBDA seg : seg # "")

----------------------------------------------------------------------------
(* Properties of the whole run.                                            *)

\* what the specification calls empty
specEmpty(v) == v \in { Arr(<<>>), Obj(<<>>), Str(""), Null, Undefined }

RECURSIVE noEmptyInside(_)
\* no array of v holds, and no key of v maps to, an empty value, at any depth
noEmptyInside(v) ==
  IF v[1] = "array"
    THEN \A i \in 1..Len(v[2]) : ~specEmpty(v[2][i]) /\ noEmptyInside(v[2][i])
  ELSE IF v[1] = "object"
    THEN \A i \in 1..Len(v[2]) : ~specEmpty(v[2][i][2]) /\ noEmptyInside(v[2][i][2])
  ELSE TRUE

\* C4: the frontmatter of every markdown write is clean(post.frontmatter), holds
\* no empty value at any depth, and has no images key when the post was linked
\* to no thumbnail and no feature image.
C4_FrontmatterPruned ==
  \A w \in 1..Len(writes) :
    LET fm == writes[w].frontmatter
        post == posts[writes[w].post]
    IN /\ fm = clean(post.frontmatter)
       /\ noEmptyInside(fm)
       /\ ObjKeys(ObjGet(post.frontmatter, "images")) = {} => "images" \notin ObjKeys(fm)

\* C4 witness: two posts were written, the first linked to its thumbnail and
\* with a blank summary and a blank category pruned, the second without any
\* image and without a date.
C4_Witness ==
  /\ Len(writes) = 2
  /\ ObjGet(writes[1].frontmatter, "images") = Obj(<< <<"thumbnail", Str("./images/b.jpg")>> >>)
  /\ ObjGet(writes[1].frontmatter, "categories") = Arr(<<Str("news")>>)
  /\ ObjKeys(writes[1].frontmatter) = {"slug", "title", "author", "date", "images", "categories"}
  /\ ObjKeys(writes[2].frontmatter) = {"slug", "title", "summary", "author"}

RECURSIVE allImageUrls(_)
\* the imageUrls of the first n posts, one after the other
allImageUrls(n) ==
  IF n = 0 THEN <<>> ELSE allImageUrls(n - 1) \o posts[n].meta.imageUrls

\* the posts writeFiles has dealt with
written == IF pc = "writeFiles" THEN cursor - 1
           ELSE IF pc = "idle" THEN Len(posts) ELSE 0

\* C7: with saveimages the downloads scheduled are, in order, one per entry of
\* the imageUrls of the posts dealt with, the k-th (from 0) with delay 25 * k;
\* without saveimages there is none; either way every post dealt with has its
\* markdown write.
C7_StaggeredDownloads ==
  /\ Len(writes) = written
  /\ \A w \in 1..Len(writes) : writes[w].post = w
  /\ IF argv.saveimages
       THEN /\ [k \in 1..Len(downloads) |-> downloads[k].url] = allImageUrls(written)
            /\ \A k \in 1..Len(downloads) : downloads[k].delay = 25 * (k - 1)
       ELSE downloads = <<>>

\* C7 witness: writeFiles is over, two posts have images and the first
\* download of the second post is the third of the run, with delay 50.
C7_Witness ==
  /\ pc = "idle"
  /\ argv.saveimages
  /\ Len(downloads) = 3
  /\ downloads[2].post = 1
  /\ downloads[3].post = 2
  /\ downloads[3].delay = 50

\* C8: with a folders option that is none of the four modes nothing is read,
\* parsed, extracted, created or scheduled, and the run ends on the error.
C8_InvalidFoldersAborts ==
  argv.folders \notin {"year", "yearmonth", "path", "post"} =>
    /\ pc \in {"init", "exit"}
    /\ pc = "exit" => <<"Invalid folders option:", argv.folders>> \in log
    /\ content = <<"unread">>
    /\ images = <<>> /\ authors = <<>> /\ posts = <<>>
    /\ dirs = {} /\ writes = <<>> /\ downloads = <<>>

\* C8 witness: the run ended on the invalid option although the input was a
\* readable export with posts.
C8_Witness ==
  /\ pc = "exit"
  /\ argv.folders = "flat"
  /\ file[1] = "export"
  /\ Len(file[2].posts) = 2
  /\ log = {<<"Invalid folders option:", "flat">>}

\* every write and download that is not over can take its next step
canProceed ==
  /\ \A w \in 1..Len(writes) :
       writes[w].status = "pending" => ENABLED WriteFileCallback(w, FALSE)
  /\ \A k \in 1..Len(downloads) :
       /\ downloads[k].status = "requested" => ENABLED EndRequest(k, "saved")
       /\ (downloads[k].status = "scheduled"
            /\ \A j \in 1..(k - 1) : downloads[j].status # "scheduled")
           => ENABLED StartRequest(k)

\* a step settles one write or one download and leaves every other one alone
oneItemStep ==
  /\ Len(writes') = Len(writes) /\ Len(downloads') = Len(downloads)
  /\ \A w \in 1..Len(writes) :
       writes'[w] # writes[w] =>
         /\ downloads' = downloads
         /\ \A v \in 1..Len(writes) : v # w => writes'[v] = writes[v]
  /\ \A k \in 1..Len(downloads) :
       downloads'[k] # downloads[k] =>
         /\ writes' = writes
         /\ \A j \in 1..Len(downloads) : j # k => downloads'[j] = downloads[j]

\* every failure was logged
failuresLogged ==
  /\ \A w \in 1..Len(writes) :
       writes[w].status = "failed" => <<"Unable to write file.", writes[w].path>> \in log
  /\ \A k \in 1..Len(downloads) :
       /\ downloads[k].status = "error"
            => <<"Unable to download image.", downloads[k].url>> \in log
       /\ downloads[k].status = "badStatus"
            => <<"Response status code", downloads[k].url>> \in log

====
